---- MODULE Spec2Model ----
(***************************************************************************)
(* Sakkara Stats (src/app.py): a Flask application over two tables, User   *)
(* and Reading, with Flask-Login sessions.  Every route of app.py is one   *)
(* action; a request is handled atomically except signup, whose existence  *)
(* check (app.py:100) and insert (app.py:107-108) are separate store       *)
(* round-trips and may interleave with other requests.                     *)
(*                                                                         *)
(* Strings whose characters the code inspects (form fields that are        *)
(* stripped or parsed) are sequences of one-character strings; strings     *)
(* that are only compared (emails, flash texts, route names) are TLA+      *)
(* strings.  Floating point averages are kept as exact integers in tenths. *)
(***************************************************************************)
EXTENDS Integers, Sequences, FiniteSets, TLC

VARIABLES
    users,      \* table user: sequence of rows, row id = index (app.py:36-47)
    readings,   \* table reading: set of rows (app.py:49-57)
    session,    \* per browser: the user id Flask-Login keeps in the cookie, 0 = none
    inflight,   \* signup requests between their existence check and their insert
    strict,     \* the installed Flask-Login: does is_authenticated follow is_active?
    resp        \* the response to the last request handled

vars == <<users, readings, session, inflight, strict, resp>>

-----------------------------------------------------------------------------
(* Bounds of the model *)

MaxUsers == 3          \* rows of table user
MaxReadings == 3       \* reading ids handed out while statistics are checked
MaxChartReadings == 2  \* reading ids handed out elsewhere

Clients == {"c1", "c2"}

-----------------------------------------------------------------------------
(* Program constants *)

AdminEmail == "siddhuplr@gmail.com"
AdminPassword == <<"S", "a", "k", "k", "a", "r", "a", "@", "2", "0", "2", "5">>
TempPassword == <<"T", "e", "m", "p", "P", "a", "s", "s", "1", "2", "3", "!">>
DefaultBeforeMin == 80
DefaultBeforeMax == 130
DefaultAfterMin == 90
DefaultAfterMax == 180

BeforeFood == "Before Food"
AfterFood == "After Food"

NoName == << >>
NoEmail == "None"

-----------------------------------------------------------------------------
(* Python string functions used on form fields *)

IsSpace(ch) == ch = " "

RECURSIVE LStrip(_)
LStrip(s) == IF s # << >> /\ IsSpace(Head(s)) THEN LStrip(Tail(s)) ELSE s

RECURSIVE RStrip(_)
RStrip(s) ==
    IF s # << >> /\ IsSpace(s[Len(s)]) THEN RStrip(SubSeq(s, 1, Len(s) - 1)) ELSE s

\* str.strip()
strip(s) == RStrip(LStrip(s))

Digits == {"0", "1", "2", "3", "4", "5", "6", "7", "8", "9"}

DigitVal(ch) ==
    CASE ch = "0" -> 0 [] ch = "1" -> 1 [] ch = "2" -> 2 [] ch = "3" -> 3
      [] ch = "4" -> 4 [] ch = "5" -> 5 [] ch = "6" -> 6 [] ch = "7" -> 7
      [] ch = "8" -> 8 [] ch = "9" -> 9

RECURSIVE DigitsValue(_, _)
DigitsValue(s, acc) ==
    IF s = << >> THEN acc ELSE DigitsValue(Tail(s), 10 * acc + DigitVal(Head(s)))

AllDigits(s) == s # << >> /\ \A i \in 1..Len(s) : s[i] \in Digits

\* int(text): surrounding whitespace is ignored, one optional sign, then
\* decimal digits; anything else raises ValueError (ok = FALSE).
int(text) ==
    LET t == strip(text)
        signed == t # << >> /\ Head(t) \in {"-", "+"}
        body == IF signed THEN Tail(t) ELSE t
    IN  IF AllDigits(body)
        THEN [ok |-> TRUE,
              val |-> IF signed /\ Head(t) = "-"
                      THEN 0 - DigitsValue(body, 0) ELSE DigitsValue(body, 0)]
        ELSE [ok |-> FALSE, val |-> 0]

-----------------------------------------------------------------------------
(* werkzeug.security: salted hashes *)

Salts == {"s1", "s2"}

generate_password_hash(password, salt) ==
    [salt |-> salt, digest |-> <<salt, password>>]

check_password_hash(pwhash, password) ==
    pwhash.digest = <<pwhash.salt, password>>

-----------------------------------------------------------------------------
(* datetime.strptime(text, '%Y-%m-%d').date() and date.strftime('%Y-%m-%d'), *)
(* on the dates the model uses; a date is kept as its proleptic ordinal.   *)

strptime(text) ==
    CASE text = "2025-01-01" -> [ok |-> TRUE, val |-> 739252]
      [] text = "2025-01-02" -> [ok |-> TRUE, val |-> 739253]
      [] OTHER -> [ok |-> FALSE, val |-> 0]

strftime(d) ==
    CASE d = 739252 -> "2025-01-01"
      [] d = 739253 -> "2025-01-02"

-----------------------------------------------------------------------------
(* Rows and queries *)

\* User(email=..., password_hash=...) with the column defaults of app.py:41-46
NewUser(email, pwhash, role) ==
    [email |-> email, name |-> NoName, password_hash |-> pwhash, role |-> role,
     is_active |-> TRUE,
     before_food_min |-> DefaultBeforeMin, before_food_max |-> DefaultBeforeMax,
     after_food_min |-> DefaultAfterMin, after_food_max |-> DefaultAfterMax]

UserIds == 1..Len(users)

\* User.query.filter_by(email=email).first(): 0 when there is none
FindUser(email) ==
    IF \E i \in UserIds : users[i].email = email
    THEN CHOOSE i \in UserIds :
             /\ users[i].email = email
             /\ \A j \in UserIds : users[j].email = email => i <= j
    ELSE 0

\* Reading.query.get(reading_id)
ReadingIds == {r.id : r \in readings}
GetReading(rid) == CHOOSE r \in readings : r.id = rid

\* the id the store gives the next inserted reading: one more than the
\* greatest id in the table (the rowid of the default SQLite store)
NextReadingId ==
    IF readings = {} THEN 1
    ELSE (CHOOSE m \in ReadingIds : \A k \in ReadingIds : k <= m) + 1

\* Reading.query.filter_by(user_id=uid).all()
ReadingsOf(uid) == {r \in readings : r.user_id = uid}

\* Reading.query.join(User): the readings whose owner row exists
ReadingsJoinUser == {r \in readings : r.user_id \in UserIds}

\* current_user.is_authenticated.  current_user is the row the user_loader
\* finds for the session's id.  UserMixin.is_authenticated is True up to
\* Flask-Login 0.5 and is self.is_active from 0.6 on, and User.is_active is
\* the column (app.py:42): the release installed decides whether the session
\* of a deactivated user still counts.
Authenticated(c) ==
    /\ session[c] \in UserIds
    /\ strict => users[session[c]].is_active

\* current_user's id, 0 for the anonymous user
CurrentUser(c) == IF Authenticated(c) THEN session[c] ELSE 0

\* a role test that lets every logged-in user through
IsAdminAnyRole(uid) == uid \in UserIds

IsAdmin(uid) == users[uid].role = "admin"

-----------------------------------------------------------------------------
(* Responses *)

NoData == [kind |-> "none"]

NoArg == [none |-> TRUE]

\* actor is current_user's id when the request arrives (0: anonymous)
Response(route, c, arg, status, to, flash, data) ==
    [route |-> route, client |-> c, actor |-> CurrentUser(c), arg |-> arg,
     status |-> status, to |-> to, flash |-> flash, data |-> data]

\* login_manager.unauthorized() with login_view = 'login'
LoginRequired(route, c, arg) ==
    /\ ~Authenticated(c)
    /\ resp' = Response(route, c, arg, "redirect", "login", "", NoData)
    /\ UNCHANGED <<strict, users, readings, session, inflight>>

-----------------------------------------------------------------------------
(* Statistics (dashboard, admin_dashboard) *)

RECURSIVE SumSugar(_)
SumSugar(S) ==
    IF S = {} THEN 0
    ELSE LET r == CHOOSE x \in S : TRUE IN r.sugar_value + SumSugar(S \ {r})

MinSugar(S) == CHOOSE v \in {r.sugar_value : r \in S} : \A r \in S : v <= r.sugar_value
MaxSugar(S) == CHOOSE v \in {r.sugar_value : r \in S} : \A r \in S : v >= r.sugar_value

\* a mean cut to one decimal instead of rounded
TruncatedMean(total, n) == (10 * total) \div n

\* round(total / n, 1) for n > 0, in tenths: the float quotient is rounded to
\* the nearest tenth, an exact tie (a quotient ending in .25 or .75, which a
\* float represents exactly) going to the even tenth.
RoundedMean(total, n) ==
    LET q == 10 * total
        lo == q \div n
        rem == q % n
    IN  IF 2 * rem < n THEN lo
        ELSE IF 2 * rem > n THEN lo + 1
        ELSE IF lo % 2 = 0 THEN lo ELSE lo + 1

\* round(sum(...) / len(S) if S else 0, 1), in tenths
AvgTenths(S) == IF S = {} THEN 0 ELSE RoundedMean(SumSugar(S), Cardinality(S))

BeforeFoodReadings(S) == {r \in S : r.meal_relation = BeforeFood}
AfterFoodReadings(S) == {r \in S : r.meal_relation = AfterFood}

\* the stats dict of dashboard(); the averages are in tenths
DashboardStats(S) ==
    IF S # {}
    THEN [kind |-> "stats",
          total_readings |-> Cardinality(S),
          avg_sugar |-> RoundedMean(SumSugar(S), Cardinality(S)),
          min_sugar |-> MinSugar(S),
          max_sugar |-> MaxSugar(S),
          before_avg |-> AvgTenths(BeforeFoodReadings(S)),
          after_avg |-> AvgTenths(AfterFoodReadings(S))]
    ELSE [kind |-> "stats", total_readings |-> 0, avg_sugar |-> 0,
          min_sugar |-> 0, max_sugar |-> 0, before_avg |-> 0, after_avg |-> 0]

\* the stats dict of admin_dashboard()
AdminStats ==
    [kind |-> "admin_stats",
     total_users |-> Len(users),
     total_readings |-> Cardinality(readings),
     active_users |-> Cardinality({i \in UserIds : users[i].is_active}),
     avg_sugar |-> AvgTenths(readings),
     before_avg |-> AvgTenths(BeforeFoodReadings(readings)),
     after_avg |-> AvgTenths(AfterFoodReadings(readings))]

-----------------------------------------------------------------------------
(* Routes without login_required *)

\* app.py:64-71
Index(c) ==
    /\ resp' = Response("index", c, NoArg, "redirect",
                        IF Authenticated(c)
                        THEN IF IsAdmin(session[c]) THEN "admin_dashboard" ELSE "dashboard"
                        ELSE "login",
                        "", NoData)
    /\ UNCHANGED <<strict, users, readings, session, inflight>>

\* GET /login
LoginGet(c) ==
    /\ resp' = Response("login", c, NoArg, "render", "login.html", "", NoData)
    /\ UNCHANGED <<strict, users, readings, session, inflight>>

\* a login that does not look at is_active
LoginOutcomeNoActiveCheck(uid, password) ==
    IF uid # 0 /\ check_password_hash(users[uid].password_hash, password)
    THEN "login_user" ELSE "invalid"

\* the branch POST /login takes for the row found (0: none) and the password
LoginOutcome(uid, password) ==
    IF uid # 0 /\ check_password_hash(users[uid].password_hash, password)
    THEN IF users[uid].is_active THEN "login_user" ELSE "deactivated"
    ELSE "invalid"

\* POST /login, app.py:75-92
LoginPost(c, email, password) ==
    LET uid == FindUser(email)
        out == LoginOutcome(uid, password)
        arg == [email |-> email, password |-> password]
    IN  /\ CASE out = "login_user" ->
                 /\ session' = [session EXCEPT ![c] = uid]
                 /\ resp' = Response("login", c, arg, "redirect",
                                     IF IsAdmin(uid) THEN "admin_dashboard" ELSE "dashboard",
                                     "", NoData)
             [] out = "deactivated" ->
                 /\ session' = session
                 /\ resp' = Response("login", c, arg, "render", "login.html",
                                     "Your account is deactivated. Please contact admin.",
                                     NoData)
             [] out = "invalid" ->
                 /\ session' = session
                 /\ resp' = Response("login", c, arg, "render", "login.html",
                                     "Invalid email or password.", NoData)
        /\ UNCHANGED <<strict, users, readings, inflight>>

\* GET /signup
SignupGet(c) ==
    /\ resp' = Response("signup", c, NoArg, "render", "signup.html", "", NoData)
    /\ UNCHANGED <<strict, users, readings, session, inflight>>

\* POST /signup up to the existence check, app.py:97-101.  A request that
\* passes the check is in flight until its insert; a browser waits for the
\* answer before it posts the form again.
SignupCheck(c, email, password) ==
    LET arg == [email |-> email, password |-> password]
    IN  /\ \A q \in inflight : q.client # c
        /\ IF FindUser(email) # 0
           THEN /\ resp' = Response("signup", c, arg, "render", "signup.html",
                                    "Email already exists.", NoData)
                /\ inflight' = inflight
           ELSE /\ resp' = Response("signup", c, arg, "pending", "", "", NoData)
                /\ inflight' = inflight \cup
                                 {[client |-> c, email |-> email, password |-> password]}
        /\ UNCHANGED <<strict, users, readings, session>>

\* the unique constraint on user.email (app.py:38): may this row be inserted?
UniqueEmail(email) == \A i \in UserIds : users[i].email # email

\* POST /signup from db.session.add to the end, app.py:103-110.  The commit
\* of a row whose email is taken raises IntegrityError, which nothing
\* catches: the request ends in a 500 response and the row is not stored.
SignupCommit(q, salt) ==
    LET arg == [email |-> q.email, password |-> q.password]
    IN  /\ q \in inflight
        /\ inflight' = inflight \ {q}
        /\ IF UniqueEmail(q.email)
           THEN /\ users' = Append(users,
                                   NewUser(q.email,
                                           generate_password_hash(q.password, salt),
                                           "user"))
                /\ resp' = Response("signup", q.client, arg, "redirect", "login",
                                    "Account created successfully! Please login.", NoData)
           ELSE /\ users' = users
                /\ resp' = Response("signup", q.client, arg, "error", "500",
                                    "", NoData)
        /\ UNCHANGED <<strict, readings, session>>

\* app.py:389-392
TestChart(c) ==
    /\ resp' = Response("test_chart", c, NoArg, "render", "test_chart.html", "", NoData)
    /\ UNCHANGED <<strict, users, readings, session, inflight>>

-----------------------------------------------------------------------------
(* Routes behind login_required *)

\* app.py:114-118
Logout(c) ==
    \/ LoginRequired("logout", c, NoArg)
    \/ /\ Authenticated(c)
       /\ session' = [session EXCEPT ![c] = 0]
       /\ resp' = Response("logout", c, NoArg, "redirect", "login", "", NoData)
       /\ UNCHANGED <<strict, users, readings, inflight>>

\* app.py:120-160
Dashboard(c) ==
    \/ LoginRequired("dashboard", c, NoArg)
    \/ /\ Authenticated(c)
       /\ resp' = IF IsAdmin(session[c])
                  THEN Response("dashboard", c, NoArg, "redirect", "admin_dashboard",
                                "", NoData)
                  ELSE Response("dashboard", c, NoArg, "render", "dashboard.html", "",
                                DashboardStats(ReadingsOf(session[c])))
       /\ UNCHANGED <<strict, users, readings, session, inflight>>

\* app.py:162-176.  form: date, time_of_day, meal_relation, sugar_value,
\* food_eaten.  A date or a sugar value that does not parse raises
\* ValueError, which nothing catches.
AddReading(c, form) ==
    LET arg == [form |-> form]
        d == strptime(form.date)
        v == int(form.sugar_value)
    IN  \/ LoginRequired("add_reading", c, arg)
        \/ /\ Authenticated(c)
           /\ IF d.ok /\ v.ok
              THEN /\ readings' = readings \cup
                        {[id |-> NextReadingId, user_id |-> session[c], date |-> d.val,
                          time_of_day |-> form.time_of_day,
                          meal_relation |-> form.meal_relation,
                          sugar_value |-> v.val, food_eaten |-> form.food_eaten]}
                   /\ resp' = Response("add_reading", c, arg, "redirect", "dashboard",
                                       "Reading added successfully!", NoData)
              ELSE /\ readings' = readings
                   /\ resp' = Response("add_reading", c, arg, "error", "500", "", NoData)
           /\ UNCHANGED <<strict, users, session, inflight>>

\* app.py:178-186; the page lists the actor's readings
History(c) ==
    \/ LoginRequired("history", c, NoArg)
    \/ /\ Authenticated(c)
       /\ resp' = IF IsAdmin(session[c])
                  THEN Response("history", c, NoArg, "redirect", "manage_readings",
                                "", NoData)
                  ELSE Response("history", c, NoArg, "render", "history.html", "",
                                [kind |-> "readings", rows |-> ReadingsOf(session[c])])
       /\ UNCHANGED <<strict, users, readings, session, inflight>>

\* app.py:188-191
Profile(c) ==
    \/ LoginRequired("profile", c, NoArg)
    \/ /\ Authenticated(c)
       /\ resp' = Response("profile", c, NoArg, "render", "profile.html", "", NoData)
       /\ UNCHANGED <<strict, users, readings, session, inflight>>

\* request.form.get(key, '')
FormGet(form, key) == IF key \in DOMAIN form THEN form[key] ELSE << >>

\* int(request.form[key]): a missing key and a value that is no integer both
\* raise inside the try block
FormInt(form, key) ==
    IF key \in DOMAIN form THEN int(form[key]) ELSE [ok |-> FALSE, val |-> 0]

\* the four range fields in the order app.py:202-205 reads them
RangeFields == <<"before_food_min", "before_food_max", "after_food_min", "after_food_max">>

RangesParse(form) == \A i \in 1..4 : FormInt(form, RangeFields[i]).ok

\* new_password == confirm_password, app.py:212, on the stripped fields
PasswordsMatch(new_password, confirm_password) == new_password = confirm_password

\* the row of current_user with the assignments of app.py:198-205 pending
WithProfile(u, form) ==
    [u EXCEPT
        !.name = IF "name" \in DOMAIN form /\ strip(form["name"]) # << >>
                 THEN strip(form["name"]) ELSE @,
        !.before_food_min = FormInt(form, "before_food_min").val,
        !.before_food_max = FormInt(form, "before_food_max").val,
        !.after_food_min = FormInt(form, "after_food_min").val,
        !.after_food_max = FormInt(form, "after_food_max").val]

\* a request end that commits what is pending
Committed(stored, pending) == pending

\* What the store holds once a request has returned without db.session.commit():
\* the session is removed at the end of the request and the pending
\* assignments to the row are dropped (app.py:215-217).
Uncommitted(stored, pending) == stored

\* app.py:193-227
UpdateProfile(c, form, salt) ==
    LET arg == [form |-> form]
        uid == session[c]
        new_password == strip(FormGet(form, "new_password"))
        confirm_password == strip(FormGet(form, "confirm_password"))
        pending == WithProfile(users[uid], form)
        done(flash) == Response("update_profile", c, arg, "redirect", "profile",
                                flash, NoData)
    IN  \/ LoginRequired("update_profile", c, arg)
        \/ /\ Authenticated(c)
           /\ IF ~RangesParse(form)
              THEN \* except Exception: db.session.rollback()
                   /\ users' = users
                   /\ resp' = done("Error updating profile")
              ELSE IF new_password # << >>
              THEN IF PasswordsMatch(new_password, confirm_password)
                   THEN /\ users' = [users EXCEPT ![uid] =
                               [pending EXCEPT !.password_hash =
                                   generate_password_hash(new_password, salt)]]
                        /\ resp' = done("Profile and password updated successfully!")
                   ELSE /\ users' = [users EXCEPT ![uid] = Uncommitted(users[uid], pending)]
                        /\ resp' = done("Passwords do not match!")
              ELSE /\ users' = [users EXCEPT ![uid] = pending]
                   /\ resp' = done("Profile updated successfully!")
           /\ UNCHANGED <<strict, readings, session, inflight>>

-----------------------------------------------------------------------------
(* Administration *)

\* if current_user.role != 'admin': return redirect(url_for('dashboard'))
AdminOnly(route, c, arg) ==
    /\ Authenticated(c)
    /\ ~IsAdmin(session[c])
    /\ resp' = Response(route, c, arg, "redirect", "dashboard", "", NoData)
    /\ UNCHANGED <<strict, users, readings, session, inflight>>

\* get_or_404 on an id that has no row
NotFound(route, c, arg) ==
    /\ resp' = Response(route, c, arg, "error", "404", "", NoData)
    /\ UNCHANGED <<strict, users, readings, session, inflight>>

\* app.py:229-263
AdminDashboard(c) ==
    \/ LoginRequired("admin_dashboard", c, NoArg)
    \/ AdminOnly("admin_dashboard", c, NoArg)
    \/ /\ Authenticated(c) /\ IsAdmin(session[c])
       /\ resp' = Response("admin_dashboard", c, NoArg, "render",
                           "admin_dashboard.html", "", AdminStats)
       /\ UNCHANGED <<strict, users, readings, session, inflight>>

\* app.py:265-272
ManageUsers(c) ==
    \/ LoginRequired("manage_users", c, NoArg)
    \/ AdminOnly("manage_users", c, NoArg)
    \/ /\ Authenticated(c) /\ IsAdmin(session[c])
       /\ resp' = Response("manage_users", c, NoArg, "render", "manage_users.html", "",
                           [kind |-> "users", rows |-> users])
       /\ UNCHANGED <<strict, users, readings, session, inflight>>

\* app.py:274-282
ManageReadings(c) ==
    \/ LoginRequired("manage_readings", c, NoArg)
    \/ AdminOnly("manage_readings", c, NoArg)
    \/ /\ Authenticated(c) /\ IsAdmin(session[c])
       /\ resp' = Response("manage_readings", c, NoArg, "render",
                           "manage_readings.html", "",
                           [kind |-> "readings", rows |-> ReadingsJoinUser])
       /\ UNCHANGED <<strict, users, readings, session, inflight>>

\* a toggle that only ever deactivates
ToggledOff(flag) == FALSE

\* user.is_active = not user.is_active
Toggled(flag) == ~flag

\* app.py:284-296
ToggleUser(c, user_id) ==
    LET arg == [id |-> user_id]
    IN  \/ LoginRequired("toggle_user", c, arg)
        \/ AdminOnly("toggle_user", c, arg)
        \/ /\ Authenticated(c) /\ IsAdmin(session[c])
           /\ \/ /\ user_id \notin UserIds
                 /\ NotFound("toggle_user", c, arg)
              \/ /\ user_id \in UserIds
                 /\ users' = [users EXCEPT ![user_id].is_active = Toggled(@)]
                 /\ resp' = Response("toggle_user", c, arg, "redirect", "manage_users",
                                     IF users'[user_id].is_active
                                     THEN "activated" ELSE "deactivated",
                                     NoData)
                 /\ UNCHANGED <<strict, readings, session, inflight>>

\* app.py:298-311
ResetUserPassword(c, user_id, salt) ==
    LET arg == [id |-> user_id]
    IN  \/ LoginRequired("reset_user_password", c, arg)
        \/ AdminOnly("reset_user_password", c, arg)
        \/ /\ Authenticated(c) /\ IsAdmin(session[c])
           /\ \/ /\ user_id \notin UserIds
                 /\ NotFound("reset_user_password", c, arg)
              \/ /\ user_id \in UserIds
                 /\ users' = [users EXCEPT ![user_id].password_hash =
                                  generate_password_hash(TempPassword, salt)]
                 /\ resp' = Response("reset_user_password", c, arg, "redirect",
                                     "manage_users", "Password reset", NoData)
                 /\ UNCHANGED <<strict, readings, session, inflight>>

-----------------------------------------------------------------------------
(* Readings: deletion and chart export *)

\* an ownership test that lets every logged-in user delete
MayDeleteAny(uid, reading) == uid \in UserIds

\* the negation of the test of app.py:319
MayDelete(uid, reading) == IsAdmin(uid) \/ reading.user_id = uid

\* app.py:313-330
DeleteReading(c, reading_id) ==
    LET arg == [id |-> reading_id]
    IN  \/ LoginRequired("delete_reading", c, arg)
        \/ /\ Authenticated(c)
           /\ \/ /\ reading_id \notin ReadingIds
                 /\ NotFound("delete_reading", c, arg)
              \/ /\ reading_id \in ReadingIds
                 /\ IF MayDelete(session[c], GetReading(reading_id))
                    THEN /\ readings' = readings \ {GetReading(reading_id)}
                         /\ resp' = Response("delete_reading", c, arg, "redirect",
                                             IF IsAdmin(session[c])
                                             THEN "manage_readings" ELSE "history",
                                             "Reading deleted successfully!", NoData)
                    ELSE /\ readings' = readings
                         /\ resp' = Response("delete_reading", c, arg, "redirect",
                                             "history", "Unauthorized action.", NoData)
                 /\ UNCHANGED <<strict, users, session, inflight>>

\* a data point that always names the owner
PointEmailAlways(uid, reading) == users[reading.user_id].email

\* the 'user_email' of a data point, app.py:352-353
PointEmail(uid, reading) ==
    IF IsAdmin(uid) THEN users[reading.user_id].email ELSE NoEmail

\* data_point, app.py:347-354
DataPoint(uid, reading) ==
    [x |-> strftime(reading.date), y |-> reading.sugar_value,
     food |-> reading.food_eaten, time |-> reading.time_of_day,
     user_email |-> PointEmail(uid, reading)]

\* app.py:356-359: is the point appended to before_food_data?  Every other
\* point is appended to after_food_data.
IsBeforeFoodPoint(reading) == reading.meal_relation = BeforeFood

\* the rows of a query ordered by Reading.date.asc(): every order of S that
\* is ascending in date (the store chooses among equal dates)
OrderedByDate(S) ==
    {q \in [1..Cardinality(S) -> S] :
        /\ \A i, j \in 1..Cardinality(S) : i < j => q[i] # q[j] /\ q[i].date <= q[j].date}

\* before_food_data (before = TRUE) or after_food_data (before = FALSE) after
\* the loop of app.py:346-359 over the rows q
RECURSIVE Filter(_, _, _)
Filter(q, uid, before) ==
    IF q = << >> THEN << >>
    ELSE LET rest == Filter(Tail(q), uid, before)
         IN  IF IsBeforeFoodPoint(Head(q)) = before
             THEN <<DataPoint(uid, Head(q))>> \o rest ELSE rest

\* app.py:332-372
ChartData(c) ==
    \/ LoginRequired("chart_data", c, NoArg)
    \/ /\ Authenticated(c)
       /\ LET uid == session[c]
              rows == IF IsAdmin(uid) THEN ReadingsJoinUser ELSE ReadingsOf(uid)
          IN  \E q \in OrderedByDate(rows) :
                resp' = Response("chart_data", c, NoArg, "json", "", "",
                          [kind |-> "chart",
                           before_food |-> Filter(q, uid, TRUE),
                           after_food |-> Filter(q, uid, FALSE),
                           before_food_range |-> [min |-> users[uid].before_food_min,
                                                  max |-> users[uid].before_food_max],
                           after_food_range |-> [min |-> users[uid].after_food_min,
                                                 max |-> users[uid].after_food_max]])
       /\ UNCHANGED <<strict, users, readings, session, inflight>>

-----------------------------------------------------------------------------
(* Requests the model issues *)

UserEmails == {"a@x.org", "b@x.org"}

Pw1 == <<"p", "w">>
Pw2 == <<"q">>

ReadingForm(date, meal, sugar) ==
    [date |-> date, time_of_day |-> "Morning", meal_relation |-> meal,
     sugar_value |-> sugar, food_eaten |-> "rice"]

ProfileForm(name, bmin, new_password, confirm_password) ==
    [name |-> name, before_food_min |-> bmin, before_food_max |-> <<"1", "4", "0">>,
     after_food_min |-> <<"9", "0">>, after_food_max |-> <<"1", "8", "0">>,
     new_password |-> new_password, confirm_password |-> confirm_password]

\* the store has room for the row a signup would insert
RoomForUser == Len(users) + Cardinality(inflight) < MaxUsers

NoResponse ==
    [route |-> "", client |-> "c1", actor |-> 0, arg |-> NoArg, status |-> "",
     to |-> "", flash |-> "", data |-> NoData]

\* db.create_all() and create_admin_user() on an empty store, app.py:374-387
\* and 394-397; salt is the salt drawn for the admin's hash, flavour the
\* Flask-Login installed
Boot(salt, flavour) ==
    /\ strict = flavour
    /\ users = <<NewUser(AdminEmail, generate_password_hash(AdminPassword, salt), "admin")>>
    /\ readings = {}
    /\ session = [c \in Clients |-> 0]
    /\ inflight = {}
    /\ resp = NoResponse

Init == \E salt \in Salts, flavour \in BOOLEAN : Boot(salt, flavour)

-----------------------------------------------------------------------------
(* Spec: every route of the application, one browser *)

RouteForms ==
    {ReadingForm("2025-01-01", BeforeFood, <<"1", "0", "0">>),
     ReadingForm("01/01/2025", BeforeFood, <<"1", "0", "0">>)}

RouteProfileForms == {ProfileForm(<<"N">>, <<"7", "0">>, << >>, << >>)}

Next ==
    \/ Index("c1")
    \/ LoginGet("c1")
    \/ \E e \in {AdminEmail, "a@x.org"}, p \in {AdminPassword, Pw1} : LoginPost("c1", e, p)
    \/ SignupGet("c1")
    \/ RoomForUser /\ SignupCheck("c1", "a@x.org", Pw1)
    \/ \E q \in inflight : SignupCommit(q, "s1")
    \/ TestChart("c1")
    \/ Logout("c1")
    \/ Dashboard("c1")
    \/ \E f \in RouteForms : NextReadingId <= MaxChartReadings /\ AddReading("c1", f)
    \/ History("c1")
    \/ Profile("c1")
    \/ \E f \in RouteProfileForms : UpdateProfile("c1", f, "s1")
    \/ AdminDashboard("c1")
    \/ ManageUsers("c1")
    \/ ManageReadings("c1")
    \/ \E u \in 1..(Len(users) + 1) : ToggleUser("c1", u)
    \/ \E u \in 1..(Len(users) + 1) : ResetUserPassword("c1", u, "s1")
    \/ \E r \in 1..MaxChartReadings : DeleteReading("c1", r)
    \/ ChartData("c1")

Spec == (\E flavour \in BOOLEAN : Boot("s1", flavour)) /\ [][Next]_vars

-----------------------------------------------------------------------------
(* SpecAdmin: accounts, sessions and the administration routes, two browsers *)

AdminPasswords == {AdminPassword, TempPassword, Pw1}

NextAdmin ==
    \/ \E c \in Clients, e \in {AdminEmail, "a@x.org"}, p \in AdminPasswords :
          LoginPost(c, e, p)
    \/ \E c \in Clients : Logout(c)
    \/ \E c \in Clients : RoomForUser /\ SignupCheck(c, "a@x.org", Pw1)
    \/ \E q \in inflight : SignupCommit(q, "s1")
    \/ \E c \in Clients, u \in 1..(Len(users) + 1) : ToggleUser(c, u)
    \/ \E c \in Clients, u \in 1..(Len(users) + 1) : ResetUserPassword(c, u, "s1")
    \/ /\ NextReadingId < MaxChartReadings
       /\ AddReading("c1", ReadingForm("2025-01-01", BeforeFood, <<"1", "0", "0">>))

SpecAdmin == (\E flavour \in BOOLEAN : Boot("s1", flavour)) /\ [][NextAdmin]_vars

-----------------------------------------------------------------------------
(* SpecSignup: signup requests of two browsers, interleaved *)

NextSignup ==
    \/ \E c \in Clients : SignupGet(c)
    \/ \E c \in Clients, e \in UserEmails \cup {AdminEmail}, p \in {Pw1, Pw2} :
          RoomForUser /\ SignupCheck(c, e, p)
    \/ \E q \in inflight, salt \in Salts : SignupCommit(q, salt)
    \/ \E c \in Clients, e \in UserEmails, p \in {Pw1, Pw2} : LoginPost(c, e, p)
    \/ \E c \in Clients : Logout(c)

SpecSignup == Init /\ [][NextSignup]_vars

-----------------------------------------------------------------------------
(* SpecProfile: update_profile with the forms a browser may post *)

ProfileNames == {<<" ">>, <<" ", "M", " ">>}
ProfileMins == {<<" ", "7", "5">>, <<"x">>}
ProfilePasswords ==
    {<<<< >>, << >>>>, <<<<" ">>, << >>>>, <<Pw2, Pw2>>, <<Pw2 \o <<" ">>, Pw2>>,
     <<Pw2, Pw1>>, <<Pw2, << >>>>}

ProfileForms ==
    {ProfileForm(n, m, pp[1], pp[2]) :
        n \in ProfileNames, m \in ProfileMins, pp \in ProfilePasswords}
    \cup {[before_food_min |-> <<"7", "0">>, before_food_max |-> <<"1", "4", "0">>,
           after_food_min |-> <<"9", "0">>, after_food_max |-> <<"1", "8", "0">>],
          [name |-> <<"N">>, new_password |-> Pw2, confirm_password |-> Pw1]}

NextProfile ==
    \/ \E e \in {AdminEmail, "a@x.org"}, p \in {AdminPassword, Pw1, Pw2} :
          LoginPost("c1", e, p)
    \/ Logout("c1")
    \/ RoomForUser /\ SignupCheck("c1", "a@x.org", Pw1)
    \/ \E q \in inflight : SignupCommit(q, "s1")
    \/ Profile("c1")
    \/ \E f \in ProfileForms : UpdateProfile("c1", f, "s2")

SpecProfile == (\E salt \in Salts : Boot(salt, TRUE)) /\ [][NextProfile]_vars

-----------------------------------------------------------------------------
(* SpecReadings: readings of several owners, their deletion and the chart *)

MealInputs == {BeforeFood, AfterFood, "Fasting"}

ChartForms ==
    {ReadingForm("2025-01-01", m, <<"1", "0", "0">>) : m \in MealInputs}
        \cup {ReadingForm("2025-01-02", BeforeFood, <<"9", "0">>)}

NextReadings ==
    \/ \E e \in UserEmails \cup {AdminEmail}, p \in {AdminPassword, Pw1} :
          LoginPost("c1", e, p)
    \/ Logout("c1")
    \/ \E e \in UserEmails : RoomForUser /\ SignupCheck("c1", e, Pw1)
    \/ \E q \in inflight : SignupCommit(q, "s1")
    \/ \E f \in ChartForms : NextReadingId <= MaxChartReadings /\ AddReading("c1", f)
    \/ \E r \in 1..(MaxChartReadings + 1) : DeleteReading("c1", r)
    \/ ChartData("c1")

SpecReadings == Boot("s1", TRUE) /\ [][NextReadings]_vars

-----------------------------------------------------------------------------
(* SpecStats: the statistics of a user's dashboard *)

SugarInputs == {<<"1", "0", "0">>, <<"1", "2", "0">>, <<"2", "0", "0">>, <<"-", "5">>}

StatsForms == {ReadingForm("2025-01-01", m, v) : m \in MealInputs, v \in SugarInputs}

NextStats ==
    \/ \E p \in {AdminPassword, Pw1} : LoginPost("c1", "a@x.org", p)
    \/ Logout("c1")
    \/ RoomForUser /\ SignupCheck("c1", "a@x.org", Pw1)
    \/ \E q \in inflight : SignupCommit(q, "s1")
    \/ \E f \in StatsForms : NextReadingId <= MaxReadings /\ AddReading("c1", f)
    \/ \E r \in 1..MaxReadings : DeleteReading("c1", r)
    \/ Dashboard("c1")

SpecStats == Boot("s1", TRUE) /\ [][NextStats]_vars

-----------------------------------------------------------------------------
(* Properties *)

IsPost(r) == "email" \in DOMAIN r.arg
Role(uid) == users[uid].role
Abs(x) == IF x < 0 THEN 0 - x ELSE x

\* C1: delete_reading by a logged-in actor that is neither an admin nor the
\* reading's owner answers "Unauthorized action." and leaves the table of
\* readings as it was; a reading leaves the table only in a delete_reading
\* request for its id whose actor is an admin or its owner.
C1_DeleteOwnerOrAdmin ==
    [][ /\ ( /\ resp'.route = "delete_reading"
             /\ resp'.actor \in UserIds
             /\ resp'.arg.id \in ReadingIds
             /\ Role(resp'.actor) # "admin"
             /\ GetReading(resp'.arg.id).user_id # resp'.actor )
           => ( /\ resp'.flash = "Unauthorized action."
                /\ resp'.status = "redirect" /\ resp'.to = "history"
                /\ readings' = readings )
        /\ \A r \in readings :
              r \notin readings' =>
                 /\ resp'.route = "delete_reading"
                 /\ resp'.arg.id = r.id
                 /\ resp'.actor \in UserIds
                 /\ (Role(resp'.actor) = "admin" \/ r.user_id = resp'.actor)
      ]_vars

C1_Witness ==
    /\ resp.route = "delete_reading"
    /\ resp.flash = "Unauthorized action."
    /\ Role(resp.actor) = "user"
    /\ \E r \in readings : r.id = resp.arg.id /\ r.user_id # resp.actor

\* C2: while a user's is_active flag is false, a POST /login with that user's
\* email and the password its stored hash verifies answers with the
\* "deactivated" notice and leaves every browser's session as it was.
C2_DisabledLogin ==
    [][ ( /\ resp'.route = "login"
          /\ IsPost(resp')
          /\ LET uid == FindUser(resp'.arg.email)
             IN  /\ uid # 0
                 /\ ~users[uid].is_active
                 /\ check_password_hash(users[uid].password_hash, resp'.arg.password) )
        => ( /\ resp'.flash = "Your account is deactivated. Please contact admin."
             /\ resp'.status = "render" /\ resp'.to = "login.html"
             /\ session' = session )
      ]_vars

C2_Witness ==
    /\ resp.route = "login"
    /\ resp.flash = "Your account is deactivated. Please contact admin."
    /\ session[resp.client] = 0
    /\ LET uid == FindUser(resp.arg.email)
       IN  /\ uid # 0 /\ ~users[uid].is_active
           /\ check_password_hash(users[uid].password_hash, resp.arg.password)

UniqueEmails == \A i, j \in UserIds : users[i].email = users[j].email => i = j

\* C3: a signup request that completes while its email is stored answers
\* "Email already exists." and stores no row, and no two rows of table user
\* ever share an email.
C3_DuplicateEmail ==
    /\ [][ ( /\ resp'.route = "signup"
             /\ IsPost(resp')
             /\ resp'.status # "pending"
             /\ FindUser(resp'.arg.email) # 0 )
           => ( /\ resp'.flash = "Email already exists."
                /\ users' = users )
         ]_vars
    /\ []UniqueEmails

\* C4: a request without a session to a route other than login and signup is
\* answered with a redirect to login.
C4_SessionRequired ==
    (resp.route \notin {"", "login", "signup"} /\ resp.actor = 0)
        => (resp.status = "redirect" /\ resp.to = "login")

\* C5: toggle_user and reset_user_password requested by a logged-in actor
\* whose role is not admin, for any id, leave table user as it was and
\* redirect to the dashboard; an is_active flag changes only in a
\* toggle_user request for that user whose actor is an admin.
C5_AdminOnly ==
    [][ /\ ( /\ resp'.route \in {"toggle_user", "reset_user_password"}
             /\ resp'.actor \in UserIds
             /\ Role(resp'.actor) # "admin" )
           => ( /\ users' = users
                /\ resp'.status = "redirect" /\ resp'.to = "dashboard" )
        /\ \A u \in UserIds :
              users'[u].is_active # users[u].is_active =>
                 /\ resp'.route = "toggle_user"
                 /\ resp'.arg.id = u
                 /\ resp'.actor \in UserIds
                 /\ Role(resp'.actor) = "admin"
      ]_vars

C5_Witness ==
    /\ resp.route \in {"toggle_user", "reset_user_password"}
    /\ resp.actor \in UserIds
    /\ Role(resp.actor) = "user"
    /\ resp.arg.id \in UserIds
    /\ resp.to = "dashboard"

\* a toggle_user request that reached the flip
ToggleDone(r) == r.route = "toggle_user" /\ r.to = "manage_users"

\* C9: a toggle_user request by an admin for an existing user negates that
\* user's is_active flag and changes nothing else in the store; when the
\* request before it was a toggle_user of the same user, the flag is back at
\* the value it had before the two (the opposite of what the first reported).
C9_ToggleTwice ==
    [][ ToggleDone(resp') =>
          LET u == resp'.arg.id
          IN  /\ u \in UserIds
              /\ users' = [users EXCEPT ![u].is_active = ~users[u].is_active]
              /\ readings' = readings
              /\ (ToggleDone(resp) /\ resp.arg.id = u) =>
                    users'[u].is_active = (resp.flash = "deactivated")
      ]_vars

C9_Witness ==
    /\ ToggleDone(resp)
    /\ resp.flash = "activated"
    /\ users[resp.arg.id].is_active
    /\ Len(users) > 1
    /\ readings # {}

ChartResponse(r) == r.route = "chart_data" /\ r.status = "json"

ChartPoints(r) ==
    {r.data.before_food[i] : i \in 1..Len(r.data.before_food)}
        \cup {r.data.after_food[i] : i \in 1..Len(r.data.after_food)}

\* C6: every data point of a chart_data response to an actor whose role is
\* not admin has user_email null, in before_food and in after_food alike.
C6_NoOwnerEmail ==
    ChartResponse(resp) =>
        \A pt \in ChartPoints(resp) : pt.user_email # NoEmail => Role(resp.actor) = "admin"

C6_Witness ==
    /\ ChartResponse(resp)
    /\ Role(resp.actor) = "user"
    /\ resp.data.before_food # << >>
    /\ resp.data.after_food # << >>

\* C7 as claimed, on the forms whose four range fields are integers:
\* update_profile with a new_password field that is not empty and differs
\* from the confirm_password field flashes the mismatch and leaves the
\* actor's row as it was.
C7_RawMismatch ==
    [][ ( /\ resp'.route = "update_profile"
          /\ resp'.actor \in UserIds
          /\ RangesParse(resp'.arg.form)
          /\ FormGet(resp'.arg.form, "new_password") # << >>
          /\ FormGet(resp'.arg.form, "new_password")
                # FormGet(resp'.arg.form, "confirm_password") )
        => ( /\ resp'.flash = "Passwords do not match!"
             /\ users' = users )
      ]_vars

\* C7 as amended: update_profile with a new_password that is not empty once
\* stripped of surrounding whitespace and differs from the stripped
\* confirm_password stores nothing (name, ranges and hash of every row are as
\* before), and flashes the mismatch whenever the four range fields are
\* integers.
C7_StrippedMismatch ==
    [][ ( /\ resp'.route = "update_profile"
          /\ resp'.actor \in UserIds
          /\ strip(FormGet(resp'.arg.form, "new_password")) # << >>
          /\ strip(FormGet(resp'.arg.form, "new_password"))
                # strip(FormGet(resp'.arg.form, "confirm_password")) )
        => ( /\ users' = users
             /\ RangesParse(resp'.arg.form) => resp'.flash = "Passwords do not match!" )
      ]_vars

C7_Witness ==
    /\ resp.route = "update_profile"
    /\ resp.flash = "Passwords do not match!"
    /\ strip(FormGet(resp.arg.form, "name")) # << >>
    /\ users[resp.actor].name = NoName
    /\ users[resp.actor].before_food_min = DefaultBeforeMin

\* what the stats of a rendered dashboard are measured against
StatsResponse(r) == r.route = "dashboard" /\ r.status = "render"

RECURSIVE SugarTotal(_)
SugarTotal(S) ==
    IF S = {} THEN 0
    ELSE LET m == CHOOSE r \in S : \A q \in S : r.id <= q.id
         IN  m.sugar_value + SugarTotal(S \ {m})

\* tenths is the mean of S exactly / to the nearest tenth; 0 for no readings
ExactMean(tenths, S) ==
    IF S = {} THEN tenths = 0 ELSE tenths * Cardinality(S) = 10 * SugarTotal(S)
NearestMean(tenths, S) ==
    IF S = {} THEN tenths = 0
    ELSE 2 * Abs(tenths * Cardinality(S) - 10 * SugarTotal(S)) <= Cardinality(S)

CountMinMax(d, S) ==
    /\ d.total_readings = Cardinality(S)
    /\ IF S = {} THEN d.min_sugar = 0 /\ d.max_sugar = 0
       ELSE /\ \E r \in S : r.sugar_value = d.min_sugar
            /\ \E r \in S : r.sugar_value = d.max_sugar
            /\ \A r \in S : d.min_sugar <= r.sugar_value /\ r.sugar_value <= d.max_sugar

\* C8 as claimed: total, min and max are those of the actor's readings and
\* avg, before_avg, after_avg are exactly the mean of all its readings, of
\* those marked 'Before Food' and of those marked 'After Food'; 0 when empty.
C8_ExactStats ==
    StatsResponse(resp) =>
        LET S == {r \in readings : r.user_id = resp.actor}
            d == resp.data
        IN  /\ CountMinMax(d, S)
            /\ ExactMean(d.avg_sugar, S)
            /\ ExactMean(d.before_avg, {r \in S : r.meal_relation = "Before Food"})
            /\ ExactMean(d.after_avg, {r \in S : r.meal_relation = "After Food"})

\* C8 as amended: total, min and max are those of the actor's readings and
\* avg, before_avg, after_avg are the mean of all its readings, of those
\* marked 'Before Food' and of those marked 'After Food', each rounded to
\* one decimal place; 0 when empty.
C8_RoundedStats ==
    StatsResponse(resp) =>
        LET S == {r \in readings : r.user_id = resp.actor}
            d == resp.data
        IN  /\ CountMinMax(d, S)
            /\ NearestMean(d.avg_sugar, S)
            /\ NearestMean(d.before_avg, {r \in S : r.meal_relation = "Before Food"})
            /\ NearestMean(d.after_avg, {r \in S : r.meal_relation = "After Food"})

\* the example of the specification: 100 and 120 before food, 200 after
C8_Witness ==
    /\ StatsResponse(resp)
    /\ resp.data.total_readings = 3
    /\ resp.data.min_sugar = 100 /\ resp.data.max_sugar = 200
    /\ resp.data.before_avg = 1100 /\ resp.data.after_avg = 2000
    /\ {r.meal_relation : r \in ReadingsOf(resp.actor)} = {"Before Food", "After Food"}

\* C10: the before_food sequence of a chart_data response holds the visible
\* readings marked 'Before Food', the after_food sequence those marked
\* 'After Food', and no other reading is in either.
C10_SameClassification ==
    ChartResponse(resp) =>
        LET S == IF Role(resp.actor) = "admin" THEN readings
                 ELSE {r \in readings : r.user_id = resp.actor}
        IN  /\ Len(resp.data.before_food)
                 = Cardinality({r \in S : r.meal_relation = "Before Food"})
            /\ Len(resp.data.after_food)
                 = Cardinality({r \in S : r.meal_relation = "After Food"})

====
